---- MODULE Spec2Model ----
(***************************************************************************)
(* A state-machine model of src/ikfk_snap.py: the IK/FK snapping tool of a *)
(* character rig.  The program's state is the host scene (the blend        *)
(* toggle, the world transforms of the controls, the proxy nodes, the      *)
(* keyframes) and, for every call in progress, the position in the         *)
(* function body and its local variables.  Every host call of ik_to_fk,    *)
(* fk_to_ik and snap is one step, so that an exception raised by any of    *)
(* them, and the interleaving of two calls, can be observed.               *)
(*                                                                         *)
(* World transforms are records [t, r]: an integer translation vector and  *)
(* an integer tag for the rotation part; composition is componentwise      *)
(* addition.  Lengths are kept squared and directions unnormalised, so     *)
(* that the vector arithmetic of the pole placement is exact.              *)
(***************************************************************************)
EXTENDS Integers, Sequences, FiniteSets, TLC

\* ------------------------------------------------------------ bounds
\* The blend attribute holds k/Den for k in 0..Den (0 = FK, Den = IK).
Den == 2
\* Largest initial offset between a control and the joint it is snapped to.
MaxOff == 1
\* Ranges of the joint positions of the pole-vector specification.
MaxRoot == 1
MaxX == 16
MaxSide == 1

Procs == {1, 2}

\* ------------------------------------------------------------ vectors
Vec(x, y, z) == <<x, y, z>>
Zero3 == Vec(0, 0, 0)
VAdd(a, b) == Vec(a[1] + b[1], a[2] + b[2], a[3] + b[3])
VSub(a, b) == Vec(a[1] - b[1], a[2] - b[2], a[3] - b[3])
VScale(a, k) == Vec(a[1] * k, a[2] * k, a[3] * k)
Dot(a, b) == a[1] * b[1] + a[2] * b[2] + a[3] * b[3]

Pose(t, r) == [t |-> t, r |-> r]
PAdd(a, b) == Pose(VAdd(a.t, b.t), a.r + b.r)
PSub(a, b) == Pose(VSub(a.t, b.t), a.r - b.r)

\* ------------------------------------------------------------ the rig
\* What get_rig_connections resolves for a limb wired by add_connections:
\* the arm dictionaries have no fk_005, ikm_006 and ik_ball entry.
\* line 91 and 137: "leg" in str(blend_ctl)
IsLeg_Never(ctl) == FALSE
IsLeg(ctl) == ctl = "leg"

fk_list(ctl) ==
    <<"fk_001", "fk_002", "fk_003", IF ctl = "leg" THEN "fk_005" ELSE "None">>
ikm_list(ctl) ==
    <<"ikm_001", "ikm_002", "ikm_003", IF ctl = "leg" THEN "ikm_006" ELSE "None">>
ik_ball_of(ctl) == IF ctl = "leg" THEN "ik_ball" ELSE "None"

Controls == {"fk_001", "fk_002", "fk_003", "fk_005", "ik_handle", "ik_pole", "ik_ball"}
Targets == {"ikm_001", "ikm_002", "ikm_003", "ikm_006"}

VARIABLES
    blend,      \* the blend attribute of blend_ctl, in units of 1/Den
    limb,       \* "arm" or "leg": whether str(blend_ctl) contains "leg"
    world,      \* world transform of every control
    ikmFk,      \* world transform of every ikm joint while FK drives it
    ikmIk,      \* world transform of every ikm joint while IK drives it
    proxies,    \* the duplicates present in the scene
    poleOff,    \* the relative move applied to ik_pole after its placement
    ikRoll,     \* ik_handle.ikRoll
    keyed,      \* controls that received a keyframe
    pc,         \* per call: the line about to run, or idle/returned/raised
    err,        \* per call: the exception that ended it
    args,       \* per call: the function and its arguments
    locals,     \* per call: local variables of ik_to_fk / fk_to_ik
    frame,      \* per call: local variables of the running snap
    log,        \* per call: the scene effects performed, in order
    moved,      \* per call: controls whose world transform it has written
    serial,     \* whether a call waits for the other one to end
    rest        \* the blend value before any call

vars == <<blend, limb, world, ikmFk, ikmIk, proxies, poleOff, ikRoll, keyed,
          pc, err, args, locals, frame, log, moved, serial, rest>>

scene == <<world, ikmFk, ikmIk, proxies, poleOff, ikRoll, keyed>>

\* ------------------------------------------------------------ host evaluation
\* The world transform of an ikm joint under blend value b: the FK pose at
\* 0, the IK pose at Den, interpolated (on the integer grid) in between.
Lerp(a, b, k) == (a * (Den - k) + b * k) \div Den
TargetWorld(tgt, b) ==
    LET f == ikmFk[tgt]
        i == ikmIk[tgt]
    IN  Pose(Vec(Lerp(f.t[1], i.t[1], b), Lerp(f.t[2], i.t[2], b),
                 Lerp(f.t[3], i.t[3], b)),
             Lerp(f.r, i.r, b))

\* The world transform of a proxy: that of its source while it is the
\* source's sibling, its parent's transform composed with its local offset
\* once it is parented under a target.
ProxyWorld(px) ==
    IF px.parent \in Targets THEN PAdd(TargetWorld(px.parent, blend), px.local)
    ELSE px.local

NoProxy == [owner |-> 0, parent |-> "None", local |-> Pose(Zero3, 0)]
ProxyOf(p) == IF \E px \in proxies : px.owner = p
              THEN CHOOSE px \in proxies : px.owner = p
              ELSE NoProxy

\* ------------------------------------------------------------ bookkeeping
Ev(e, n, o, v) == [ev |-> e, node |-> n, other |-> o, val |-> v]

NoFrame == [source |-> "None", target |-> "None", value |-> 0, ret |-> "idle",
            src0 |-> Pose(Zero3, 0), transforms |-> Pose(Zero3, 0)]
NoDir == [kind |-> "none", by |-> 0, vec |-> Zero3]
NoLocals == [blend_attr |-> -1, fk_001_pos |-> Zero3, fk_002_pos |-> Zero3,
             fk_003_pos |-> Zero3, upper2 |-> 0, lower2 |-> 0, nan |-> FALSE,
             mid_world |-> Pose(Zero3, 0), pole_y |-> NoDir, ball_bound |-> FALSE]
NoArgs == [op |-> "none", ik_rotation |-> FALSE, key |-> FALSE, blend0 |-> -1]
NoOff == [dir |-> NoDir, upper2 |-> 0, lower2 |-> 0]

Ended(p) == pc[p] \in {"returned", "raised"}
Running(p) == pc[p] \notin {"idle", "returned", "raised"}

\* A call runs alone when calls are serialised (the host's script thread).
Sched(p) == serial => \A q \in Procs \ {p} : ~Running(q)

Goto(p, l) == pc' = [pc EXCEPT ![p] = l]
\* log[p].calls: what the orchestrating function did; log[p].effects: the
\* scene effects of the snap call it made last.
Emit(p, e) == log' = [log EXCEPT ![p].effects = Append(@, e)]
Note(p, e) == log' = [log EXCEPT ![p].calls = Append(@, e)]
Raise(p, e) == /\ pc' = [pc EXCEPT ![p] = "raised"]
               /\ err' = [err EXCEPT ![p] = e]

\* ------------------------------------------------------------ snap
\* The two values snap writes to the blend attribute.
SetValue(value) == value * Den
InvertedValue_Same(value) == value * Den
InvertedValue(value) == (1 - value) * Den

\* Entering snap(source, target, blend_ctl + ".blend", value); the call
\* returns to line `ret'.
EnterSnap(p, source, target, value, ret) ==
    /\ frame' = [frame EXCEPT ![p] = [NoFrame EXCEPT !.source = source,
                     !.target = target, !.value = value, !.ret = ret]]
    /\ log' = [log EXCEPT ![p] = [calls |-> Append(@.calls, Ev("snap", source, target, value)),
                                    effects |-> <<>>]]
    /\ Goto(p, "L316")

\* line 316: pm.setAttr(attr, value)
SnapSetAttr(p) ==
    /\ pc[p] = "L316"
    /\ blend' = SetValue(frame[p].value)
    /\ Emit(p, Ev("setAttr", "blend", "-", SetValue(frame[p].value)))
    /\ Goto(p, "L319")
    /\ UNCHANGED <<limb, scene, err, args, locals, frame, moved, serial, rest>>

\* line 319: dup_source = pm.duplicate(source, po=True)[0]
\* The duplicate is a sibling of source with source's transform.
SnapDuplicate(p) ==
    /\ pc[p] = "L319"
    /\ proxies' = proxies \cup
          {[owner |-> p, parent |-> "sibling", local |-> world[frame[p].source]]}
    /\ frame' = [frame EXCEPT ![p].src0 = world[frame[p].source]]
    /\ Emit(p, Ev("duplicate", frame[p].source, "-", 0))
    /\ Goto(p, "L320")
    /\ UNCHANGED <<blend, limb, world, ikmFk, ikmIk, poleOff, ikRoll, keyed,
                   err, args, locals, moved, serial, rest>>

\* line 320: source_parent = pm.listRelatives(source, parent=True)[0]
SnapListParent(p) ==
    /\ pc[p] = "L320"
    /\ Goto(p, "L323")
    /\ UNCHANGED <<blend, limb, scene, err, args, locals, frame, log, moved,
                   serial, rest>>

\* line 323: pm.parent(dup_source, target): the host keeps the duplicate's
\* world transform and recomputes its local one against the new parent.
SnapParent(p) ==
    /\ pc[p] = "L323"
    /\ LET px == ProxyOf(p)
           tw == TargetWorld(frame[p].target, blend)
       IN  proxies' = (proxies \ {px}) \cup
               {[px EXCEPT !.parent = frame[p].target,
                           !.local = PSub(ProxyWorld(px), tw)]}
    /\ Emit(p, Ev("parent", frame[p].source, frame[p].target, 0))
    /\ Goto(p, "L326")
    /\ UNCHANGED <<blend, limb, world, ikmFk, ikmIk, poleOff, ikRoll, keyed,
                   err, args, locals, frame, moved, serial, rest>>

\* line 326: pm.setAttr(attr, 1-value)
SnapInvert(p) ==
    /\ pc[p] = "L326"
    /\ blend' = InvertedValue(frame[p].value)
    /\ Emit(p, Ev("setAttr", "blend", "-", InvertedValue(frame[p].value)))
    /\ Goto(p, "L329")
    /\ UNCHANGED <<limb, scene, err, args, locals, frame, moved, serial, rest>>

\* line 329: transforms = pm.xform(dup_source, ws=True, matrix=True, q=True)
SnapRead(p) ==
    /\ pc[p] = "L329"
    /\ frame' = [frame EXCEPT ![p].transforms = ProxyWorld(ProxyOf(p))]
    /\ Emit(p, Ev("read", frame[p].source, "-", 0))
    /\ Goto(p, "L330")
    /\ UNCHANGED <<blend, limb, scene, err, args, locals, moved, serial, rest>>

\* line 330: pm.xform(source, ws=True, matrix=transforms)
SnapWrite(p) ==
    /\ pc[p] = "L330"
    /\ world' = [world EXCEPT ![frame[p].source] = frame[p].transforms]
    /\ moved' = [moved EXCEPT ![p] = @ \cup {frame[p].source}]
    /\ Emit(p, Ev("write", frame[p].source, "-", 0))
    /\ Goto(p, "L333")
    /\ UNCHANGED <<blend, limb, ikmFk, ikmIk, proxies, poleOff, ikRoll, keyed,
                   err, args, locals, frame, serial, rest>>

\* line 333: pm.delete(dup_source), and the return to the caller
SnapDelete(p) ==
    /\ pc[p] = "L333"
    /\ proxies' = proxies \ {ProxyOf(p)}
    /\ Emit(p, Ev("delete", frame[p].source, "-", 0))
    /\ Goto(p, frame[p].ret)
    /\ UNCHANGED <<blend, limb, world, ikmFk, ikmIk, poleOff, ikRoll, keyed,
                   err, args, locals, frame, moved, serial, rest>>

SnapSteps(p) ==
    \/ SnapSetAttr(p) \/ SnapDuplicate(p) \/ SnapListParent(p) \/ SnapParent(p)
    \/ SnapInvert(p) \/ SnapRead(p) \/ SnapWrite(p) \/ SnapDelete(p)

\* ------------------------------------------------------------ pole vector
\* line 80: the cosine above which the fixed axis replaces the projection,
\* in thousandths.
CosLimit == 998

\* line 79-80: upper_goal_angle > 0.998, for rm = root_mid and rg = root_goal.
\* With d = rm.rg, ab = |rm|^2 |rg|^2 and c2 = ab - d^2 (the squared cross
\* product), d / sqrt(ab) > CosLimit/1000 is d > 0 and
\* 1000000 * c2 < (1000000 - CosLimit^2) * ab; the middle conjunct keeps the
\* products within 32-bit integers and follows from the last.
NearStraight_Loose(rm, rg) == Dot(rm, rg) > 0
NearStraight(rm, rg) ==
    LET d == Dot(rm, rg)
        ab == Dot(rm, rm) * Dot(rg, rg)
        c2 == ab - d * d
    IN  /\ d > 0
        /\ c2 * 250 <= ab
        /\ 1000000 * c2 < (1000000 - CosLimit * CosLimit) * ab

\* line 83-84: fk_002_pos - goal_project, scaled by |rg|^2 (the direction
\* is normalised afterwards): rm |rg|^2 - rg (rm.rg).  A zero root_goal
\* normalises to the zero vector, which leaves fk_002_pos - fk_001_pos.
ProjectVec(rm, rg) ==
    IF rg = Zero3 THEN rm
    ELSE VSub(VScale(rm, Dot(rg, rg)), VScale(rg, Dot(rm, rg)))

\* line 80-84: the pole direction, from the three positions and the matrix
\* the fixed axis is multiplied by.
PoleDir(root, mid, end, matrix) ==
    LET rm == VSub(mid, root)
        rg == VSub(end, root)
    IN  IF NearStraight(rm, rg)
        THEN [kind |-> "axis", by |-> matrix.r, vec |-> Vec(0, 1, 0)]
        ELSE [kind |-> "proj", by |-> 0, vec |-> ProjectVec(rm, rg)]

\* ------------------------------------------------------------ ik_to_fk
\* line 38: blend_attr = pm.getAttr(blend_ctl+".blend")
IkSave(p) ==
    /\ pc[p] = "L38"
    /\ locals' = [locals EXCEPT ![p].blend_attr = blend]
    /\ Note(p, Ev("getAttr", "blend", "-", blend))
    /\ Goto(p, "L41")
    /\ UNCHANGED <<blend, limb, scene, err, args, frame, moved, serial, rest>>

\* line 41: pm.setAttr(ik_handle+".ikRoll", 0.0)
IkResetRoll(p) ==
    /\ pc[p] = "L41"
    /\ ikRoll' = 0
    /\ Goto(p, "L44")
    /\ UNCHANGED <<blend, limb, world, ikmFk, ikmIk, proxies, poleOff, keyed,
                   err, args, locals, frame, log, moved, serial, rest>>

\* line 44-51: the world translations of fk_list[0], fk_list[1], fk_list[2]
IkReadFk(p) ==
    /\ pc[p] = "L44"
    /\ locals' = [locals EXCEPT ![p].fk_001_pos = world[fk_list(limb)[1]].t,
                                ![p].fk_002_pos = world[fk_list(limb)[2]].t,
                                ![p].fk_003_pos = world[fk_list(limb)[3]].t]
    /\ Goto(p, "L54")
    /\ UNCHANGED <<blend, limb, scene, err, args, frame, log, moved, serial, rest>>

\* line 54-57: snap the handle onto ikm_list[2], or move it to fk_003_pos
IkMoveHandle(p) ==
    /\ pc[p] = "L54"
    /\ IF args[p].ik_rotation
       THEN /\ EnterSnap(p, "ik_handle", ikm_list(limb)[3], 1, "L60")
            /\ UNCHANGED <<world, moved>>
       ELSE /\ world' = [world EXCEPT !["ik_handle"].t = locals[p].fk_003_pos]
            /\ moved' = [moved EXCEPT ![p] = @ \cup {"ik_handle"}]
            /\ Note(p, Ev("move", "ik_handle", "-", 0))
            /\ Goto(p, "L60")
            /\ UNCHANGED frame
    /\ UNCHANGED <<blend, limb, ikmFk, ikmIk, proxies, poleOff, ikRoll, keyed,
                   err, args, locals, serial, rest>>

\* line 60-70: the segment vectors and lengths, root_mid / upper_length, and
\* the world matrix of fk_list[1].  Dividing the zero vector by a zero
\* upper_length either raises or yields a not-a-number vector, depending on
\* the binding of the vector class.
IkVectors(p) ==
    /\ pc[p] = "L60"
    /\ LET rm == VSub(locals[p].fk_002_pos, locals[p].fk_001_pos)
           mg == VSub(locals[p].fk_003_pos, locals[p].fk_002_pos)
       IN  \E outcome \in IF Dot(rm, rm) = 0 THEN {"raise", "nan"} ELSE {"ok"} :
             IF outcome = "raise"
             THEN /\ Raise(p, "ZeroDivisionError")
                  /\ UNCHANGED locals
             ELSE /\ locals' = [locals EXCEPT ![p].upper2 = Dot(rm, rm),
                                              ![p].lower2 = Dot(mg, mg),
                                              ![p].nan = (outcome = "nan"),
                                              ![p].mid_world = world[fk_list(limb)[2]]]
                  /\ Goto(p, "L73")
                  /\ UNCHANGED err
    /\ UNCHANGED <<blend, limb, scene, args, frame, log, moved, serial, rest>>

\* line 73: pm.xform(ik_pole, ws=True, matrix=mid_world)
IkPoleToMid(p) ==
    /\ pc[p] = "L73"
    /\ world' = [world EXCEPT !["ik_pole"] = locals[p].mid_world]
    /\ poleOff' = NoOff
    /\ moved' = [moved EXCEPT ![p] = @ \cup {"ik_pole"}]
    /\ Note(p, Ev("xform", "ik_pole", "-", 0))
    /\ Goto(p, "L79")
    /\ UNCHANGED <<blend, limb, ikmFk, ikmIk, proxies, ikRoll, keyed,
                   err, args, locals, frame, serial, rest>>

\* line 79-84: pole_y
IkPoleDir(p) ==
    /\ pc[p] = "L79"
    /\ locals' = [locals EXCEPT ![p].pole_y =
                    IF locals[p].nan THEN [NoDir EXCEPT !.kind = "nan"]
                    ELSE PoleDir(locals[p].fk_001_pos, locals[p].fk_002_pos,
                                 locals[p].fk_003_pos, locals[p].mid_world)]
    /\ Goto(p, "L86")
    /\ UNCHANGED <<blend, limb, scene, err, args, frame, log, moved, serial, rest>>

\* line 86: pm.move(ik_pole, pole_y * total_length, r=True, ws=True)
IkMovePole(p) ==
    /\ pc[p] = "L86"
    /\ poleOff' = [dir |-> locals[p].pole_y, upper2 |-> locals[p].upper2,
                   lower2 |-> locals[p].lower2]
    /\ Note(p, Ev("move", "ik_pole", "-", 0))
    /\ Goto(p, "L87")
    /\ UNCHANGED <<blend, limb, world, ikmFk, ikmIk, proxies, ikRoll, keyed,
                   err, args, locals, frame, moved, serial, rest>>

\* line 87: ik_pole.rotate.set(0, 0, 0)
IkZeroRotate(p) ==
    /\ pc[p] = "L87"
    /\ world' = [world EXCEPT !["ik_pole"].r = 0]
    /\ Goto(p, "L91")
    /\ UNCHANGED <<blend, limb, ikmFk, ikmIk, proxies, poleOff, ikRoll, keyed,
                   err, args, locals, frame, log, moved, serial, rest>>

\* line 91-98: for a leg, bind ball_ik and ball_fk and copy the world matrix
\* of fk_list[-1] to ik_ball
IkBall(p) ==
    /\ pc[p] = "L91"
    /\ IF IsLeg(limb)
       THEN /\ locals' = [locals EXCEPT ![p].ball_bound = TRUE]
            /\ world' = [world EXCEPT ![ik_ball_of(limb)] = world[fk_list(limb)[4]]]
            /\ moved' = [moved EXCEPT ![p] = @ \cup {ik_ball_of(limb)}]
            /\ Note(p, Ev("xform", ik_ball_of(limb), fk_list(limb)[4], 0))
       ELSE UNCHANGED <<locals, world, moved, log>>
    /\ Goto(p, "L102")
    /\ UNCHANGED <<blend, limb, ikmFk, ikmIk, proxies, poleOff, ikRoll, keyed,
                   err, args, frame, serial, rest>>

\* line 102 and 145: pm.setAttr(blend_ctl+".blend", blend_attr)
RestoreValue_Keep(saved, current) == current
RestoreValue_Flip(saved, current) == Den - saved
RestoreValue(saved, current) == saved

IkRestore(p) ==
    /\ pc[p] = "L102"
    /\ blend' = RestoreValue(locals[p].blend_attr, blend)
    /\ Note(p, Ev("restore", "blend", "-", RestoreValue(locals[p].blend_attr, blend)))
    /\ Goto(p, "L105")
    /\ UNCHANGED <<limb, scene, err, args, locals, frame, moved, serial, rest>>

\* line 105-108: the keyframes; ball_ik is a local bound by the leg branch only
IkKey(p) ==
    /\ pc[p] = "L105"
    /\ IF ~args[p].key
       THEN /\ Goto(p, "returned")
            /\ UNCHANGED <<keyed, err, log>>
       ELSE IF ~locals[p].ball_bound
       THEN /\ keyed' = keyed \cup {"ik_handle", "ik_pole"}
            /\ Note(p, Ev("key", "ik_handle", "ik_pole", 0))
            /\ Raise(p, "UnboundLocalError")
       ELSE /\ keyed' = keyed \cup {"ik_handle", "ik_pole", ik_ball_of(limb)}
            /\ Note(p, Ev("key", "ik_handle", "ik_pole", 1))
            /\ Goto(p, "returned")
            /\ UNCHANGED err
    /\ UNCHANGED <<blend, limb, world, ikmFk, ikmIk, proxies, poleOff, ikRoll,
                   args, locals, frame, moved, serial, rest>>

IkSteps(p) ==
    \/ IkSave(p) \/ IkResetRoll(p) \/ IkReadFk(p) \/ IkMoveHandle(p)
    \/ IkVectors(p) \/ IkPoleToMid(p) \/ IkPoleDir(p) \/ IkMovePole(p)
    \/ IkZeroRotate(p) \/ IkBall(p) \/ IkRestore(p) \/ IkKey(p)

\* ------------------------------------------------------------ fk_to_ik
\* line 130: blend_attr = pm.getAttr(blend_ctl+".blend")
FkSave(p) ==
    /\ pc[p] = "L130"
    /\ locals' = [locals EXCEPT ![p].blend_attr = blend]
    /\ Note(p, Ev("getAttr", "blend", "-", blend))
    /\ Goto(p, "L132")
    /\ UNCHANGED <<blend, limb, scene, err, args, frame, moved, serial, rest>>

\* line 132-134: snap(fk_list[i], ikm_list[i], blend_ctl+".blend", 0), i = 0, 1, 2
FkSnapJoint(p) ==
    /\ pc[p] \in {"L132", "L133", "L134"}
    /\ LET i == CASE pc[p] = "L132" -> 1 [] pc[p] = "L133" -> 2 [] OTHER -> 3
           next == CASE pc[p] = "L132" -> "L133" [] pc[p] = "L133" -> "L134"
                     [] OTHER -> "L137"
       IN  EnterSnap(p, fk_list(limb)[i], ikm_list(limb)[i], 0, next)
    /\ UNCHANGED <<blend, limb, scene, err, args, locals, moved, serial, rest>>

\* line 137-143: for a leg, bind ball_ikm and ball_fk and snap the one onto
\* the other
FkBall(p) ==
    /\ pc[p] = "L137"
    /\ IF IsLeg(limb)
       THEN /\ locals' = [locals EXCEPT ![p].ball_bound = TRUE]
            /\ EnterSnap(p, fk_list(limb)[4], ikm_list(limb)[4], 0, "L145")
       ELSE /\ Goto(p, "L145")
            /\ UNCHANGED <<locals, frame, log>>
    /\ UNCHANGED <<blend, limb, scene, err, args, moved, serial, rest>>

\* line 145: pm.setAttr(blend_ctl+".blend", blend_attr)
FkRestore(p) ==
    /\ pc[p] = "L145"
    /\ blend' = RestoreValue(locals[p].blend_attr, blend)
    /\ Note(p, Ev("restore", "blend", "-", RestoreValue(locals[p].blend_attr, blend)))
    /\ Goto(p, "L148")
    /\ UNCHANGED <<limb, scene, err, args, locals, frame, moved, serial, rest>>

\* line 148-151: the keyframes; ball_fk is a local bound by the leg branch only
FkKey(p) ==
    /\ pc[p] = "L148"
    /\ IF ~args[p].key
       THEN /\ Goto(p, "returned")
            /\ UNCHANGED <<keyed, err, log>>
       ELSE /\ keyed' = keyed \cup
                   ({fk_list(limb)[i] : i \in 1..4} \ {"None"})
            /\ IF ~locals[p].ball_bound
               THEN /\ Note(p, Ev("key", "fk_list", "-", 0))
                    /\ Raise(p, "UnboundLocalError")
               ELSE /\ Note(p, Ev("key", "fk_list", fk_list(limb)[4], 1))
                    /\ Goto(p, "returned")
                    /\ UNCHANGED err
    /\ UNCHANGED <<blend, limb, world, ikmFk, ikmIk, proxies, poleOff, ikRoll,
                   args, locals, frame, moved, serial, rest>>

FkSteps(p) ==
    \/ FkSave(p) \/ FkSnapJoint(p) \/ FkBall(p) \/ FkRestore(p) \/ FkKey(p)

\* ------------------------------------------------------------ calls
\* smart_ik_to_fk, line 175: ik_to_fk(..., ik_rotation=ik_rotation, key=key)
CallIkToFk(p, rotations, keys) ==
    /\ pc[p] = "idle"
    /\ \E r \in rotations, k \in keys :
          args' = [args EXCEPT ![p] = [op |-> "ik_to_fk", ik_rotation |-> r,
                                        key |-> k, blend0 |-> blend]]
    /\ Goto(p, "L38")
    /\ UNCHANGED <<blend, limb, scene, err, locals, frame, log, moved, serial, rest>>

\* smart_fk_to_ik, line 196: fk_to_ik(..., key=key)
CallFkToIk(p, keys) ==
    /\ pc[p] = "idle"
    /\ \E k \in keys :
          args' = [args EXCEPT ![p] = [op |-> "fk_to_ik", ik_rotation |-> FALSE,
                                        key |-> k, blend0 |-> blend]]
    /\ Goto(p, "L130")
    /\ UNCHANGED <<blend, limb, scene, err, locals, frame, log, moved, serial, rest>>

\* snap called on its own, line 298
CallSnap(p) ==
    /\ pc[p] = "idle"
    /\ args' = [args EXCEPT ![p] = [op |-> "snap", ik_rotation |-> FALSE,
                                    key |-> FALSE, blend0 |-> blend]]
    /\ \E source \in {"fk_001", "ik_handle"}, target \in {"ikm_001", "ikm_003"},
          value \in {0, 1} :
          EnterSnap(p, source, target, value, "returned")
    /\ UNCHANGED <<blend, limb, scene, err, locals, moved, serial, rest>>

\* ------------------------------------------------------------ host errors
\* The lines at which the call in progress is about to call the host.
HostCallAt(p) ==
    \/ pc[p] \in {"L38", "L41", "L44", "L60", "L73", "L86", "L87", "L102",
                  "L130", "L145",
                  "L316", "L319", "L320", "L323", "L326", "L329", "L330", "L333"}
    \/ pc[p] = "L54" /\ ~args[p].ik_rotation
    \/ pc[p] = "L91" /\ IsLeg(limb)
    \/ pc[p] \in {"L105", "L148"} /\ args[p].key

\* A host call raises (a node that does not resolve, a source without a
\* parent at line 320, ...): nothing catches it, so it ends the call in
\* progress, whichever function made it.
HostFail(p) ==
    /\ HostCallAt(p)
    /\ Raise(p, "HostError")
    /\ UNCHANGED <<blend, limb, scene, args, locals, frame, log, moved, serial, rest>>

\* ------------------------------------------------------------ initial scenes
Off(d) == Pose(Vec(d, 0, 0), d)

\* The controls of a rig whose FK chain stands at root, mid, end.
InitWorld(root, mid, end) ==
    [c \in Controls |->
        CASE c = "fk_001" -> Pose(root, 1)
          [] c = "fk_002" -> Pose(mid, 2)
          [] c = "fk_003" -> Pose(end, 3)
          [] c = "fk_005" -> Pose(VAdd(end, Vec(1, 0, 0)), 4)
          [] c = "ik_handle" -> Pose(VAdd(end, Vec(0, 1, 0)), 5)
          [] c = "ik_pole" -> Pose(VAdd(mid, Vec(0, 3, 0)), 6)
          [] OTHER -> Pose(VAdd(end, Vec(1, 1, 0)), 7)]

FkOf(tgt) == CASE tgt = "ikm_001" -> "fk_001" [] tgt = "ikm_002" -> "fk_002"
               [] tgt = "ikm_003" -> "fk_003" [] OTHER -> "fk_005"

InitScene(b, l, w, dFk, dIk, apart, ser) ==
    /\ blend = b
    /\ rest = b
    /\ limb = l
    /\ world = w
    /\ ikmFk = [t \in Targets |-> PAdd(w[FkOf(t)], Off(dFk))]
    /\ ikmIk = [t \in Targets |->
                  IF t = "ikm_003" THEN PAdd(w["ik_handle"], Off(dIk))
                  ELSE PAdd(w[FkOf(t)], Pose(Vec(0, apart, 0), 10 * apart + dIk))]
    /\ proxies = {}
    /\ poleOff = NoOff
    /\ ikRoll = 1
    /\ keyed = {}
    /\ pc = [p \in Procs |-> "idle"]
    /\ err = [p \in Procs |-> "none"]
    /\ args = [p \in Procs |-> NoArgs]
    /\ locals = [p \in Procs |-> NoLocals]
    /\ frame = [p \in Procs |-> NoFrame]
    /\ log = [p \in Procs |-> [calls |-> <<>>, effects |-> <<>>]]
    /\ moved = [p \in Procs |-> {}]
    /\ serial = ser

\* ------------------------------------------------------------ one call
Init ==
    \E b \in 0..Den, l \in {"arm", "leg"}, dFk \in 0..MaxOff, dIk \in 0..MaxOff :
        InitScene(b, l, InitWorld(Vec(0, 0, 0), Vec(1, 0, 0), Vec(2, 1, 0)),
                  dFk, dIk, 1, TRUE)

Next ==
    \E p \in {1} :
        \/ CallIkToFk(p, BOOLEAN, BOOLEAN)
        \/ CallFkToIk(p, BOOLEAN)
        \/ CallSnap(p)
        \/ IkSteps(p)
        \/ FkSteps(p)
        \/ SnapSteps(p)
        \/ HostFail(p)

Spec == Init /\ [][Next]_vars

\* ------------------------------------------------------------ pole placement
\* ik_to_fk over the chains of a bounded grid, without host errors.  The
\* root lies off the origin, so that the mid joint can stand on either side
\* of it.
InitPole ==
    \E ez \in 0..MaxSide, ey \in 0..MaxSide, ex \in 0..MaxX,
       my \in 0..MaxSide, mx \in 0..MaxX, rx \in 1..(1 + MaxRoot) :
        InitScene(0, "arm", InitWorld(Vec(rx, 0, 0), Vec(mx, my, 0), Vec(ex, ey, ez)),
                  0, 0, 1, TRUE)

NextPole ==
    \E p \in {1} :
        \/ CallIkToFk(p, {FALSE}, {FALSE})
        \/ IkSteps(p)

SpecPole == InitPole /\ [][NextPole]_vars

\* ------------------------------------------------------------ two calls
\* Two orchestrated calls on the same blend attribute, either one after the
\* other or with their host calls interleaved, on a rig whose IK and FK
\* chains already coincide (the snaps then write the transforms the controls
\* have, and only the blend attribute tells the schedules apart).
AlignedWorld ==
    LET w == InitWorld(Vec(0, 0, 0), Vec(1, 0, 0), Vec(2, 1, 0))
    IN  [w EXCEPT !["ik_handle"] = w["fk_003"], !["ik_pole"] = w["fk_002"],
                  !["ik_ball"] = w["fk_005"]]

InitTwo ==
    \E b \in 0..Den, l \in {"arm", "leg"}, ser \in BOOLEAN :
        InitScene(b, l, AlignedWorld, 0, 0, 0, ser)

NextTwo ==
    \E p \in Procs :
        \/ Sched(p) /\ CallIkToFk(p, BOOLEAN, {FALSE})
        \/ Sched(p) /\ CallFkToIk(p, {FALSE})
        \/ Sched(p) /\ IkSteps(p)
        \/ Sched(p) /\ FkSteps(p)
        \/ Sched(p) /\ SnapSteps(p)

SpecTwo == InitTwo /\ [][NextTwo]_vars

\* ------------------------------------------------------------ properties
Orchestrated(p) == args[p].op \in {"ik_to_fk", "fk_to_ik"}
IsSnapEv(e) == e.ev = "snap"
IsRestoreEv(e) == e.ev = "restore"
SnapCalls(p) == SelectSeq(log[p].calls, IsSnapEv)
Last(s) == s[Len(s)]

\* C1: when ik_to_fk or fk_to_ik returns, the blend attribute holds the
\* value it had when the function was called, for every initial value, limb,
\* ik_rotation and key.
C1_ToggleRestoredOnReturn ==
    \A p \in Procs :
        (Orchestrated(p) /\ pc[p] = "returned") => blend = args[p].blend0

\* A leg's fk_to_ik returned after its four snaps, which had left the
\* attribute at a value other than the one it started from.
C1_Witness ==
    \E p \in Procs :
        /\ args[p].op = "fk_to_ik"
        /\ pc[p] = "returned"
        /\ Len(SnapCalls(p)) = 4
        /\ args[p].blend0 # Den
        /\ blend = args[p].blend0

\* C2: once a snap call has ended, by returning or by raising, no proxy it
\* created is left in the scene: a proxy exists only while its creator is
\* between line 320 and line 333.
C2_NoOrphanProxy ==
    \A px \in proxies :
        pc[px.owner] \in {"L320", "L323", "L326", "L329", "L330", "L333"}

\* C3: when ik_to_fk or fk_to_ik ends with an error, the blend attribute
\* holds the value it had when the function was called.
C3_ToggleRestoredOnError ==
    \A p \in Procs :
        (Orchestrated(p) /\ pc[p] = "raised") => blend = args[p].blend0

\* The controls an orchestrating function moves.
MovedBy(p) ==
    IF args[p].op = "fk_to_ik"
    THEN {fk_list(limb)[i] : i \in 1..4} \ {"None"}
    ELSE {"ik_handle", "ik_pole", ik_ball_of(limb)} \ {"None"}

\* C4: a call of ik_to_fk or fk_to_ik that ends with an error has moved
\* either none or all of the controls it moves.
C4_AllOrNothingOnAbort ==
    \A p \in Procs :
        (Orchestrated(p) /\ pc[p] = "raised") =>
            (moved[p] = {} \/ moved[p] = MovedBy(p))

\* A snap call has just returned to its caller.
JustReturned(p) ==
    /\ log[p].effects # <<>>
    /\ Last(log[p].effects).ev = "delete"
    /\ pc[p] = frame[p].ret

\* The effects of the snap that just returned: toggle set to v, proxy
\* created from source, proxy parented under target, toggle set to 1 - v,
\* proxy read, source written, proxy deleted, and the toggle left at 1 - v.
SnapOrder(p) ==
    LET e == log[p].effects
        f == frame[p]
    IN  /\ [i \in 1..Len(e) |-> e[i].ev] =
              <<"setAttr", "duplicate", "parent", "setAttr", "read", "write", "delete">>
        /\ e[1].val = f.value * Den
        /\ e[2].node = f.source
        /\ e[3].node = f.source /\ e[3].other = f.target
        /\ e[4].val = (1 - f.value) * Den
        /\ e[6].node = f.source
        /\ blend = (1 - f.value) * Den
        /\ proxies = {}

\* C5 as stated: a successful snap performs its effects in that order, and
\* on return source's world transform equals the target's world transform
\* under the toggle value 1 - v.
C5_SourceEqualsTarget ==
    \A p \in Procs :
        JustReturned(p) =>
            /\ SnapOrder(p)
            /\ world[frame[p].source] = TargetWorld(frame[p].target, blend)

\* C5 as amended: a successful snap performs its effects in that order, and
\* on return source's world transform is the target's world transform under
\* 1 - v composed with the offset source had from the target under v; it is
\* the target's transform when the two coincided under v.
C5_SnapOrderAndOffset ==
    \A p \in Procs :
        JustReturned(p) =>
            LET f == frame[p]
                was == TargetWorld(f.target, f.value * Den)
                now == TargetWorld(f.target, (1 - f.value) * Den)
            IN  /\ SnapOrder(p)
                /\ world[f.source] = PAdd(now, PSub(f.src0, was))
                /\ (f.src0 = was => world[f.source] = now)

\* A snap returned whose source coincided with the target under v and was
\* moved onto the target's transform under 1 - v.
C5_Witness ==
    \E p \in Procs :
        /\ JustReturned(p)
        /\ frame[p].src0 = TargetWorld(frame[p].target, frame[p].value * Den)
        /\ world[frame[p].source] # frame[p].src0
        /\ world[frame[p].source] = TargetWorld(frame[p].target, blend)

\* The snaps of fk_to_ik on a limb.
ExpectedSnaps(l) ==
    <<Ev("snap", "fk_001", "ikm_001", 0), Ev("snap", "fk_002", "ikm_002", 0),
      Ev("snap", "fk_003", "ikm_003", 0)>>
    \o (IF l = "leg" THEN <<Ev("snap", "fk_005", "ikm_006", 0)>> ELSE <<>>)

\* C6: fk_to_ik saves the toggle once, first; then snaps FK joints 1, 2, 3
\* onto ikm joints 1, 2, 3 with value 0, in that order, and the ball joint
\* fourth if and only if the limb is a leg; then restores the toggle once,
\* and snaps nothing after that.
C6_FkToIkSnapSequence ==
    \A p \in Procs :
        args[p].op = "fk_to_ik" =>
            LET c == log[p].calls
                n == Len(SnapCalls(p))
            IN  /\ c # <<>> => c[1].ev = "getAttr"
                /\ \A i \in 2..Len(c) : c[i].ev # "getAttr"
                /\ n <= Len(ExpectedSnaps(limb))
                /\ SnapCalls(p) = SubSeq(ExpectedSnaps(limb), 1, n)
                /\ \A i \in 1..Len(c) :
                      c[i].ev = "restore" =>
                          /\ n = Len(ExpectedSnaps(limb))
                          /\ \A j \in 1..Len(c) :
                                (c[j].ev \in {"snap", "restore"} /\ j # i) => j < i
                          /\ \A j \in 1..(i - 1) : c[j].ev # "restore"

\* fk_to_ik returned on a leg after four snaps, the ball joint last.
C6_Witness ==
    \E p \in Procs :
        /\ args[p].op = "fk_to_ik"
        /\ pc[p] = "returned"
        /\ limb = "leg"
        /\ Len(SnapCalls(p)) = 4
        /\ SnapCalls(p)[4].node = "fk_005"
        /\ Len(SelectSeq(log[p].calls, IsRestoreEv)) = 1

\* C10: on a limb that is not a leg, ik_to_fk and fk_to_ik with key enabled
\* reference no ball control and return normally unless a host call fails.
C10_ArmKeyReturnsNormally ==
    \A p \in Procs :
        (Orchestrated(p) /\ limb = "arm" /\ args[p].key /\ Ended(p)
            /\ err[p] # "HostError") =>
            (pc[p] = "returned" /\ err[p] = "none")

\* The chain ik_to_fk reads: the world positions of the three FK controls.
RootPos == world["fk_001"].t
MidPos == world["fk_002"].t
EndPos == world["fk_003"].t
Degenerate == RootPos = MidPos \/ MidPos = EndPos

\* C7: on a chain whose root and mid, or mid and end, positions coincide,
\* ik_to_fk fails before the pole placement: it never gets past line 68, and
\* no position is applied to the pole control.
C7_DegenerateChainFails ==
    \A p \in Procs :
        (args[p].op = "ik_to_fk" /\ Degenerate) =>
            /\ pc[p] \in {"L38", "L41", "L44", "L54", "L60", "raised"}
            /\ "ik_pole" \notin moved[p]
            /\ poleOff = NoOff

\* The relative move of line 86 has been applied to the pole control.
PolePlaced(p) ==
    /\ args[p].op = "ik_to_fk"
    /\ pc[p] \in {"L87", "L91", "L102", "L105", "returned"}

\* The cosine between root->mid and root->end exceeds 0.998: with c2 the
\* squared cross product, c2 / (|rm|^2 |rg|^2) < 1 - 0.998^2 = 999/250000.
CosAboveLimit ==
    LET rm == VSub(MidPos, RootPos)
        rg == VSub(EndPos, RootPos)
        ab == Dot(rm, rm) * Dot(rg, rg)
        c2 == ab - Dot(rm, rg) * Dot(rm, rg)
    IN  Dot(rm, rg) > 0 /\ 250 * c2 <= ab /\ 250000 * c2 < 999 * ab

\* The pole stands at midPos plus the direction times the sum of the two
\* segment lengths; the direction, when projected, is the component of
\* root->mid orthogonal to root->end.
PoleAtMidPlus(axisTag) ==
    LET rm == VSub(MidPos, RootPos)
        rg == VSub(EndPos, RootPos)
        mg == VSub(EndPos, MidPos)
        d == poleOff.dir
    IN  /\ world["ik_pole"].t = MidPos
        /\ poleOff.upper2 = Dot(rm, rm)
        /\ poleOff.lower2 = Dot(mg, mg)
        /\ CosAboveLimit =>
              d = [kind |-> "axis", by |-> axisTag, vec |-> Vec(0, 1, 0)]
        /\ ~CosAboveLimit =>
              /\ d.kind = "proj"
              /\ Dot(d.vec, rg) = 0
              /\ rg # Zero3 =>
                    d.vec = VSub(VScale(rm, Dot(rg, rg)), VScale(rg, Dot(rm, rg)))

\* C8 as stated: on a non-degenerate chain the pole direction is the fixed
\* axis rotated by the root's orientation when the cosine exceeds 0.998 and
\* the projection otherwise, and the pole is placed at midPos plus that
\* direction times (upperLength + lowerLength).
C8_AxisByRootOrientation ==
    \A p \in Procs :
        (PolePlaced(p) /\ ~Degenerate) => PoleAtMidPlus(world["fk_001"].r)

\* C8 as amended: the same, the fixed axis being rotated by the world matrix
\* of the mid joint (fk_list[1]).
C8_AxisByMidMatrix ==
    \A p \in Procs :
        (PolePlaced(p) /\ ~Degenerate) => PoleAtMidPlus(world["fk_002"].r)

\* ik_to_fk returned on a fully extended, collinear, non-degenerate chain
\* with the fixed axis as the pole direction.
C8_Witness ==
    \E p \in Procs :
        /\ PolePlaced(p)
        /\ pc[p] = "returned"
        /\ ~Degenerate
        /\ CosAboveLimit
        /\ \E k \in 2..MaxX : VSub(EndPos, RootPos) = VScale(VSub(MidPos, RootPos), k)
        /\ poleOff.dir.kind = "axis"
        /\ poleOff.dir.by = world["fk_002"].r

\* C9: two orchestrated calls run one after the other leave the blend
\* attribute at its original value; (witness) two calls whose steps are
\* interleaved can both return with the attribute at another value.
C9_SerialCallsRestoreToggle ==
    (serial /\ \A p \in Procs : ~Running(p)) => blend = rest

\* Both calls returned, their steps interleaved, one having saved a value
\* the other had written, and the attribute differs from its original value.
C9_Witness ==
    /\ ~serial
    /\ \A p \in Procs : pc[p] = "returned" /\ Orchestrated(p)
    /\ \E p \in Procs : args[p].blend0 = rest /\ locals[p].blend_attr # rest
    /\ blend # rest

====
